---- MODULE Spec2Model ----
(***************************************************************************)
(* A model of exercises/08_finale: Matcher::new compiles a pattern text    *)
(* into tokens, Matcher::match_string matches a candidate against them in  *)
(* one forward pass and keeps most_tokens_matched.                         *)
(*                                                                         *)
(* A &str is modelled as what it is: a sequence of UTF-8 bytes.  Indices   *)
(* handed around by the Rust code (find, split_at, len) are 0-based byte   *)
(* offsets; the operators below keep that convention and convert to the    *)
(* 1-based sequences of TLA+ only inside the slicing operators.            *)
(***************************************************************************)
EXTENDS Integers, Sequences, FiniteSets, TLC

VARIABLES text, made, tokens, most_tokens_matched,
          string, answer, holding, panicked, best, called

vars == <<text, made, tokens, most_tokens_matched,
          string, answer, holding, panicked, best, called>>

(***************************************************************************)
(* Bounds of the model.                                                    *)
(***************************************************************************)
\* longest pattern text, in characters
MaxTextLen == 5
\* longest candidate string, in characters
MaxStringLen == 2

(***************************************************************************)
(* The bytes the pattern language gives a meaning to.                      *)
(***************************************************************************)
\* '.'
DOT == 46
\* '('
LPAREN == 40
\* ')'
RPAREN == 41
\* '|'
PIPE == 124

(***************************************************************************)
(* The characters the inputs are written with, as their UTF-8 encodings:   *)
(* a one-byte letter, the two-byte combining acute accent U+0301 (which    *)
(* after a letter makes one user-perceived character of two code points)   *)
(* and the four-byte U+1F4AA of the repository's test.                     *)
(***************************************************************************)
LetterA == <<97>>
CombiningAcute == <<204, 129>>
FlexedBiceps == <<240, 159, 146, 170>>

PatternChars == {LetterA, CombiningAcute, <<DOT>>, <<LPAREN>>, <<RPAREN>>, <<PIPE>>}
StringChars == {LetterA, CombiningAcute, FlexedBiceps}

RECURSIVE StrsOfLen(_, _)
StrsOfLen(alphabet, n) ==
    IF n = 0 THEN {<<>>}
    ELSE {c \o s : c \in alphabet, s \in StrsOfLen(alphabet, n - 1)}

StrsUpTo(alphabet, n) == UNION {StrsOfLen(alphabet, k) : k \in 0..n}

Texts == StrsUpTo(PatternChars, MaxTextLen)
Strings == StrsUpTo(StringChars, MaxStringLen)

(***************************************************************************)
(* str primitives the code calls, on byte sequences.                       *)
(***************************************************************************)
Min(S) == CHOOSE x \in S : \A y \in S : x <= y

\* Option<usize>: <<>> is None, <<i>> is Some(i)
unwrap_or(opt, default) == IF opt = <<>> THEN default ELSE opt[1]

is_empty(s) == Len(s) = 0

\* a UTF-8 continuation byte, 0b10xxxxxx
IsContinuation(b) == b >= 128 /\ b < 192

\* str::is_char_boundary: what every slicing of a str asserts (else it panics)
is_char_boundary(s, i) ==
    \/ i = 0
    \/ i = Len(s)
    \/ i > 0 /\ i < Len(s) /\ ~IsContinuation(s[i + 1])

\* &s[from..]
slice_from(s, from) == SubSeq(s, from + 1, Len(s))
\* &s[..to]
slice_to(s, to) == SubSeq(s, 1, to)

\* str::starts_with(char) for a one-byte char
starts_with_char(s, b) == Len(s) > 0 /\ s[1] = b

\* str::starts_with(&str)
starts_with(s, prefix) ==
    Len(prefix) <= Len(s) /\ SubSeq(s, 1, Len(prefix)) = prefix

\* str::find(char) for a one-byte char: the byte offset of its first occurrence
find(s, b) ==
    LET hits == {i \in 1..Len(s) : s[i] = b}
    IN  IF hits = {} THEN <<>> ELSE <<Min(hits) - 1>>

\* str::split(char).collect(): the pieces between the separators, empty ones kept
RECURSIVE split(_, _)
split(s, b) ==
    LET at == find(s, b)
    IN  IF at = <<>> THEN <<s>>
        ELSE <<slice_to(s, at[1])>> \o split(slice_from(s, at[1] + 1), b)

\* str::chars().next().unwrap(): the code point the first bytes encode
next_char(s) ==
    LET b == s[1]
    IN  IF b < 128 THEN b
        ELSE IF b < 224 THEN (b - 192) * 64 + (s[2] - 128)
        ELSE IF b < 240 THEN (b - 224) * 4096 + (s[2] - 128) * 64 + (s[3] - 128)
        ELSE (b - 240) * 262144 + (s[2] - 128) * 4096
             + (s[3] - 128) * 64 + (s[4] - 128)

\* len_utf8 as a decoder that knows the three-byte encodings of the Basic
\* Multilingual Plane and no longer ones would have it
len_utf8_bmp(cp) ==
    IF cp < 128 THEN 1
    ELSE IF cp < 2048 THEN 2
    ELSE 3

\* char::len_utf8
len_utf8(cp) ==
    IF cp < 128 THEN 1
    ELSE IF cp < 2048 THEN 2
    ELSE IF cp < 65536 THEN 3
    ELSE 4

(***************************************************************************)
(* enum MatcherToken                                                       *)
(***************************************************************************)
RawText(t) == [type |-> "RawText", text |-> t]
OneOfText(options) == [type |-> "OneOfText", options |-> options]
WildCard == [type |-> "WildCard"]

(***************************************************************************)
(* Matcher::new.  The loop is the recursion on (unmatched, tokens); the    *)
(* result is Some(tokens), None (the `?` on find) or a panic of a slicing. *)
(***************************************************************************)
\* first_token with the search for `(` forgotten
first_token_wc_only(unmatched) ==
    unwrap_or(find(unmatched, DOT), Len(unmatched))

\* lines 48-50: where the raw text that starts `unmatched` ends
first_token(unmatched) ==
    LET first_wc == unwrap_or(find(unmatched, DOT), Len(unmatched))
        first_one_of == unwrap_or(find(unmatched, LPAREN), Len(unmatched))
    IN  IF first_wc <= first_one_of THEN first_wc ELSE first_one_of

\* one_of_options without the `[1..]` that drops the `(`
one_of_options_keeps_paren(options) == split(options, PIPE)

\* line 45: the alternatives of the group `options` = "(d|e|f"
one_of_options(options) == split(slice_from(options, 1), PIPE)

\* line 58, and the two other ways the call can end
Some(toks) == [kind |-> "Some", tokens |-> toks, most_tokens_matched |-> 0]
None == [kind |-> "None", tokens |-> <<>>, most_tokens_matched |-> 0]
NewPanicked == [kind |-> "Panic", tokens |-> <<>>, most_tokens_matched |-> 0]

RECURSIVE new_loop(_, _)

\* wild_card_branch of a scanner that closes the raw text before every
\* special token, even when there is none
wild_card_branch_flushes_raw(unmatched, toks) ==
    IF ~is_char_boundary(unmatched, 1) THEN NewPanicked
    ELSE new_loop(slice_from(unmatched, 1),
                  Append(Append(toks, RawText(slice_to(unmatched, 0))), WildCard))

\* lines 39-41
wild_card_branch(unmatched, toks) ==
    IF ~is_char_boundary(unmatched, 1) THEN NewPanicked
    ELSE new_loop(slice_from(unmatched, 1), Append(toks, WildCard))

\* one_of_branch that takes a `(` with no `)` after it as raw text, instead
\* of returning None
one_of_branch_lenient(unmatched, toks) ==
    LET fc == find(unmatched, RPAREN)
    IN  IF fc = <<>> THEN Some(Append(toks, RawText(unmatched)))
        ELSE LET options == slice_to(unmatched, fc[1])
                 leftover == slice_from(unmatched, fc[1])
             IN  IF \/ ~is_char_boundary(unmatched, fc[1])
                    \/ ~is_char_boundary(options, 1)
                    \/ Len(leftover) < 1
                    \/ ~is_char_boundary(leftover, 1)
                 THEN NewPanicked
                 ELSE new_loop(slice_from(leftover, 1),
                               Append(toks, OneOfText(one_of_options(options))))

\* lines 42-46
one_of_branch(unmatched, toks) ==
    LET fc == find(unmatched, RPAREN)
    IN  IF fc = <<>> THEN None
        ELSE LET options == slice_to(unmatched, fc[1])
                 leftover == slice_from(unmatched, fc[1])
             IN  IF \/ ~is_char_boundary(unmatched, fc[1])
                    \/ ~is_char_boundary(options, 1)
                    \/ Len(leftover) < 1
                    \/ ~is_char_boundary(leftover, 1)
                 THEN NewPanicked
                 ELSE new_loop(slice_from(leftover, 1),
                               Append(toks, OneOfText(one_of_options(options))))

\* lines 47-53
raw_text_branch(unmatched, toks) ==
    LET end == first_token(unmatched)
    IN  IF ~is_char_boundary(unmatched, end) THEN NewPanicked
        ELSE new_loop(slice_from(unmatched, end),
                      Append(toks, RawText(slice_to(unmatched, end))))

\* lines 36-54
new_loop(unmatched, toks) ==
    IF is_empty(unmatched) THEN Some(toks)
    ELSE IF starts_with_char(unmatched, DOT) THEN wild_card_branch(unmatched, toks)
    ELSE IF starts_with_char(unmatched, LPAREN) THEN one_of_branch(unmatched, toks)
    ELSE raw_text_branch(unmatched, toks)

new(t) == new_loop(t, <<>>)

(***************************************************************************)
(* Matcher::match_string.  Each arm of the `match token` yields whether    *)
(* the token matched, the piece pushed on `answer` and the new `unmatched`;*)
(* panic is a slicing off a character boundary or past the end.            *)
(***************************************************************************)
Matched(piece, rest) ==
    [matched |-> TRUE, panic |-> FALSE, piece |-> piece, rest |-> rest]
NotMatched == [matched |-> FALSE, panic |-> FALSE, piece |-> <<>>, rest |-> <<>>]
Panic == [matched |-> FALSE, panic |-> TRUE, piece |-> <<>>, rest |-> <<>>]

\* str::split_at(mid), with its assertion
split_at(s, mid) ==
    IF mid <= Len(s) /\ is_char_boundary(s, mid)
    THEN Matched(slice_to(s, mid), slice_from(s, mid))
    ELSE Panic

\* wild_card_arm that takes the combining mark after the character with it
wild_card_arm_with_mark(unmatched) ==
    LET offset == len_utf8(next_char(unmatched))
        after == slice_from(unmatched, offset)
    IN  IF after # <<>> /\ next_char(after) \in 768..879
        THEN split_at(unmatched, offset + len_utf8(next_char(after)))
        ELSE split_at(unmatched, offset)

\* lines 74-78
wild_card_arm(unmatched) ==
    LET offset == len_utf8(next_char(unmatched))
    IN  split_at(unmatched, offset)

\* first_start choosing the longest option `unmatched` starts with
first_start_longest(options, unmatched) ==
    LET hits == {i \in 1..Len(options) : starts_with(unmatched, options[i])}
    IN  IF hits = {} THEN 0
        ELSE CHOOSE i \in hits :
                 \A j \in hits :
                     \/ Len(options[j]) < Len(options[i])
                     \/ Len(options[j]) = Len(options[i]) /\ i <= j

\* lines 81-88: the first option, in order, that `unmatched` starts with (0: none)
first_start(options, unmatched) ==
    LET hits == {i \in 1..Len(options) : starts_with(unmatched, options[i])}
    IN  IF hits = {} THEN 0 ELSE Min(hits)

\* one_of_arm with `continue` where the code has `break`: a group none of
\* whose options matches is passed over
one_of_arm_skips(options, unmatched) ==
    LET i == first_start(options, unmatched)
    IN  IF i = 0 THEN Matched(<<>>, unmatched)
        ELSE split_at(unmatched, Len(options[i]))

\* lines 80-90
one_of_arm(options, unmatched) ==
    LET i == first_start(options, unmatched)
    IN  IF i = 0 THEN NotMatched
        ELSE split_at(unmatched, Len(options[i]))

\* raw_text_arm without `unmatched = split.1`
raw_text_arm_no_advance(t, unmatched) ==
    IF starts_with(unmatched, t)
    THEN Matched(slice_to(unmatched, Len(t)), unmatched)
    ELSE NotMatched

\* lines 92-101
raw_text_arm(t, unmatched) ==
    IF starts_with(unmatched, t)
    THEN split_at(unmatched, Len(t))
    ELSE NotMatched

\* lines 73-102
match_token(token, unmatched) ==
    CASE token.type = "WildCard" -> wild_card_arm(unmatched)
      [] token.type = "OneOfText" -> one_of_arm(token.options, unmatched)
      [] token.type = "RawText" -> raw_text_arm(token.text, unmatched)

\* lines 68-103: the loop over self.tokens.iter(), at the i-th token.  A pair of
\* `answer` holds the reference to the token as its index in self.tokens.
RECURSIVE match_loop(_, _, _, _)
match_loop(toks, i, unmatched, ans) ==
    IF i > Len(toks) THEN [panic |-> FALSE, answer |-> ans]
    ELSE IF is_empty(unmatched) THEN [panic |-> FALSE, answer |-> ans]
    ELSE LET r == match_token(toks[i], unmatched)
         IN  IF r.panic THEN [panic |-> TRUE, answer |-> ans]
             ELSE IF ~r.matched THEN [panic |-> FALSE, answer |-> ans]
             ELSE match_loop(toks, i + 1, r.rest,
                             Append(ans, [token |-> i, text |-> r.piece]))

\* the update without its comparison
update_always_assigns(most, n) == n

\* lines 105-107
update_most_tokens_matched(most, n) == IF n > most THEN n ELSE most

(***************************************************************************)
(* The state machine.  `made` is what Matcher::new returned ("no": not yet *)
(* called).  match_string borrows the matcher mutably for as long as its   *)
(* result lives ('b), so a call needs the previous result dropped:         *)
(* `holding` says a result is alive.  best and called are history: the     *)
(* longest result of any call so far, and whether there was a call.        *)
(***************************************************************************)
Init ==
    /\ text = <<>>
    /\ made = "no"
    /\ tokens = <<>>
    /\ most_tokens_matched = 0
    /\ string = <<>>
    /\ answer = <<>>
    /\ holding = FALSE
    /\ panicked = FALSE
    /\ best = 0
    /\ called = FALSE

\* let matcher = Matcher::new(&text)
New ==
    /\ made = "no"
    /\ \E t \in Texts :
         \E m \in {new(t)} :
             /\ text' = t
             /\ made' = m.kind
             /\ tokens' = m.tokens
             /\ most_tokens_matched' = m.most_tokens_matched
    /\ UNCHANGED <<string, answer, holding, panicked, best, called>>

\* let result = matcher.match_string(&string)
MatchString ==
    /\ made = "Some"
    /\ ~holding
    /\ ~panicked
    /\ \E s \in Strings :
         \E r \in {match_loop(tokens, 1, s, <<>>)} :
             /\ string' = s
             /\ IF r.panic
                THEN /\ panicked' = TRUE
                     /\ UNCHANGED <<answer, holding, most_tokens_matched, best>>
                ELSE /\ answer' = r.answer
                     /\ holding' = TRUE
                     /\ most_tokens_matched' =
                            update_most_tokens_matched(most_tokens_matched,
                                                       Len(r.answer))
                     /\ best' = IF Len(r.answer) > best THEN Len(r.answer) ELSE best
                     /\ UNCHANGED panicked
    /\ called' = TRUE
    /\ UNCHANGED <<text, made, tokens>>

\* the result of the last call goes out of scope
DropAnswer ==
    /\ holding
    /\ holding' = FALSE
    /\ string' = <<>>
    /\ answer' = <<>>
    /\ UNCHANGED <<text, made, tokens, most_tokens_matched, panicked, best, called>>

Next ==
    \/ New
    \/ MatchString
    \/ DropAnswer

Spec == Init /\ [][Next]_vars

(***************************************************************************)
(* What the claims are stated with.  None of it is used by the actions.    *)
(***************************************************************************)
RECURSIVE Flatten(_)
Flatten(seqs) == IF seqs = <<>> THEN <<>> ELSE Head(seqs) \o Flatten(Tail(seqs))

IsSome == made = "Some"

\* the matched substrings of the first n pairs of the result
Pieces(n) == [i \in 1..n |-> answer[i].text]
\* where the cursor stood after n pairs, as a byte offset into the candidate
CursorAfter(n) == Len(Flatten(Pieces(n)))
\* the candidate text that remained after n pairs
RestAfter(n) == slice_from(string, CursorAfter(n))

\* the bytes of the whole character s starts with: its lead byte and the
\* continuation bytes that follow it
WholeCharLen(s) ==
    Min({n \in 1..Len(s) : n = Len(s) \/ ~IsContinuation(s[n + 1])})

\* whether a token matches at the start of rest, by the token's meaning
TokenMatchesAt(token, rest) ==
    CASE token.type = "WildCard" -> rest # <<>>
      [] token.type = "RawText" -> starts_with(rest, token.text)
      [] token.type = "OneOfText" ->
             \E j \in 1..Len(token.options) : starts_with(rest, token.options[j])

\* the text a token was written as
Render(token) ==
    CASE token.type = "WildCard" -> <<DOT>>
      [] token.type = "RawText" -> token.text
      [] token.type = "OneOfText" ->
             <<LPAREN>>
             \o Flatten([j \in 1..(2 * Len(token.options) - 1) |->
                            IF j % 2 = 1 THEN token.options[(j + 1) \div 2]
                            ELSE <<PIPE>>])
             \o <<RPAREN>>

HasByte(s, b) == \E i \in 1..Len(s) : s[i] = b

\* a `(` with no `)` anywhere after it
HasUnclosedParen(t) ==
    \E i \in 1..Len(t) :
        t[i] = LPAREN /\ \A j \in (i + 1)..Len(t) : t[j] # RPAREN

\* a `(` with no `)` after it, and a `)` before it
HasUnclosedParenAfterClose(t) ==
    \E i \in 1..Len(t) :
        /\ t[i] = LPAREN
        /\ \A j \in (i + 1)..Len(t) : t[j] # RPAREN
        /\ \E j \in 1..(i - 1) : t[j] = RPAREN

(***************************************************************************)
(* C1: Matcher::new returns None exactly for the pattern texts that hold a *)
(* `(` with no `)` anywhere after it; every other text (the empty one,     *)
(* groups with empty alternatives, stray `)` and `|`) gives Some, and no   *)
(* text makes it panic.                                                    *)
(***************************************************************************)
C1_NoneIffUnclosedParen ==
    made # "no" =>
        /\ made \in {"Some", "None"}
        /\ (made = "None") <=> HasUnclosedParen(text)

\* the shape of test::broken_matcher: "a(a|."
C1_Witness ==
    /\ made = "None"
    /\ text = LetterA \o <<LPAREN>> \o LetterA \o <<PIPE, DOT>>

(***************************************************************************)
(* C2 as stated: a pattern whose last `(` has no `)` after it but has a    *)
(* `)` earlier in the text compiles successfully.                          *)
(***************************************************************************)
C2_Original ==
    (made # "no" /\ HasUnclosedParenAfterClose(text)) => made = "Some"

(***************************************************************************)
(* C2 amended: such a pattern does not compile: Matcher::new returns None, *)
(* the earlier `)` being of no help to the unclosed `(`.                   *)
(***************************************************************************)
C2_UnclosedAfterCloseIsNone ==
    (made # "no" /\ HasUnclosedParenAfterClose(text)) => made = "None"

\* "a)a("
C2_Witness ==
    /\ made = "None"
    /\ text = LetterA \o <<RPAREN>> \o LetterA \o <<LPAREN>>

(***************************************************************************)
(* C3: the tokens of a compiled pattern are its left-to-right scan:        *)
(* written back in order they give the pattern text, `.` for a WildCard,   *)
(* `(` alternatives joined by `|` `)` for a OneOfText; no alternative      *)
(* holds a `|` or a `)` (the group ends at the first `)`, and is split at  *)
(* every `|`); a RawText holds no `.` and no `(`, is not empty and is not  *)
(* followed by another RawText (it is a maximal run).  These fix the token *)
(* sequence of a text uniquely.                                            *)
(***************************************************************************)
C3_TokensAreTheScan ==
    IsSome =>
        /\ Flatten([i \in 1..Len(tokens) |-> Render(tokens[i])]) = text
        /\ \A i \in 1..Len(tokens) :
             /\ tokens[i].type = "OneOfText" =>
                  /\ Len(tokens[i].options) >= 1
                  /\ \A j \in 1..Len(tokens[i].options) :
                       /\ ~HasByte(tokens[i].options[j], PIPE)
                       /\ ~HasByte(tokens[i].options[j], RPAREN)
             /\ tokens[i].type = "RawText" =>
                  /\ tokens[i].text # <<>>
                  /\ ~HasByte(tokens[i].text, DOT)
                  /\ ~HasByte(tokens[i].text, LPAREN)
                  /\ i < Len(tokens) => tokens[i + 1].type # "RawText"

\* the shape of test::simple_test: "a(|)." gives RawText, OneOfText of two, WildCard
C3_Witness ==
    /\ IsSome
    /\ text = LetterA \o <<LPAREN, PIPE, RPAREN, DOT>>
    /\ tokens = <<RawText(LetterA), OneOfText(<<(<<>>), (<<>>)>>), WildCard>>

(***************************************************************************)
(* C4: most_tokens_matched is 0 after Matcher::new and until the first     *)
(* call; it is always the length of the longest result of the calls so     *)
(* far, and at most the number of tokens; a call leaves it at the larger   *)
(* of its value before and the length of the call's result, and no step    *)
(* lowers it.                                                              *)
(***************************************************************************)
C4_MostTokensMatched ==
    /\ [](IsSome =>
            /\ most_tokens_matched = best
            /\ most_tokens_matched <= Len(tokens)
            /\ ~called => most_tokens_matched = 0)
    /\ [][/\ most_tokens_matched' >= most_tokens_matched
          /\ (~holding /\ holding') =>
                most_tokens_matched' =
                    IF Len(answer') > most_tokens_matched
                    THEN Len(answer') ELSE most_tokens_matched]_vars

\* a call that matched fewer tokens than an earlier one did
C4_Witness ==
    /\ holding
    /\ Len(answer) >= 1
    /\ most_tokens_matched > Len(answer)

(***************************************************************************)
(* C5: a call returns, and its result is pairs for the first k tokens, the *)
(* i-th pair referring to the i-th token, each of which was reached with   *)
(* candidate text remaining and matches where the cursor stood; the        *)
(* token after them, if there is one, was reached with nothing remaining   *)
(* or does not match at the cursor.  An empty candidate gives no pairs.    *)
(***************************************************************************)
C5_FirstKTokens ==
    /\ ~panicked
    /\ holding =>
        LET k == Len(answer)
        IN  /\ k <= Len(tokens)
            /\ \A i \in 1..k :
                 /\ answer[i].token = i
                 /\ RestAfter(i - 1) # <<>>
                 /\ TokenMatchesAt(tokens[i], RestAfter(i - 1))
            /\ k < Len(tokens) =>
                 \/ RestAfter(k) = <<>>
                 \/ ~TokenMatchesAt(tokens[k + 1], RestAfter(k))
            /\ string = <<>> => k = 0

\* no backtracking: the first alternative, empty, was taken and the next token
\* failed, where the second alternative would have let both tokens match
C5_Witness ==
    /\ holding
    /\ Len(tokens) = 2
    /\ Len(answer) = 1
    /\ tokens[1].type = "OneOfText"
    /\ tokens[2].type = "RawText"
    /\ Len(tokens[1].options) = 2
    /\ answer[1].text = <<>>
    /\ string = tokens[1].options[2] \o tokens[2].text

(***************************************************************************)
(* C6: the matched substrings of a result, joined in order, are a prefix   *)
(* of the candidate, as long as what the matched tokens consume together:  *)
(* a RawText its text, a OneOfText its first alternative that is a prefix  *)
(* at the cursor, a WildCard the character at the cursor.                  *)
(***************************************************************************)
Consumes(token, rest) ==
    CASE token.type = "WildCard" -> WholeCharLen(rest)
      [] token.type = "RawText" -> Len(token.text)
      [] token.type = "OneOfText" ->
             Len(token.options[
                 Min({j \in 1..Len(token.options) :
                        starts_with(rest, token.options[j])})])

RECURSIVE ConsumedBy(_, _)
ConsumedBy(n, s) ==
    IF n = 0 THEN 0
    ELSE LET before == ConsumedBy(n - 1, s)
         IN  before + Consumes(tokens[n], slice_from(s, before))

C6_PiecesJoinToPrefix ==
    holding =>
        LET joined == Flatten(Pieces(Len(answer)))
        IN  /\ starts_with(string, joined)
            /\ Len(joined) = ConsumedBy(Len(answer), string)

\* three tokens of three kinds matched, the whole candidate consumed
C6_Witness ==
    /\ holding
    /\ Len(answer) = 3
    /\ {tokens[i].type : i \in 1..3} = {"WildCard", "RawText", "OneOfText"}
    /\ Flatten(Pieces(3)) = string
    /\ Len(string) >= 3

(***************************************************************************)
(* C7: no RawText token of a compiled pattern is empty.                    *)
(***************************************************************************)
C7_RawTextNotEmpty ==
    IsSome =>
        \A i \in 1..Len(tokens) :
            tokens[i].type = "RawText" => Len(tokens[i].text) > 0

\* special tokens next to each other, at the start and at the end: ".(a)."
C7_Witness ==
    /\ IsSome
    /\ text = <<DOT, LPAREN>> \o LetterA \o <<RPAREN, DOT>>
    /\ Len(tokens) = 3

(***************************************************************************)
(* C8: a WildCard reached with candidate text remaining matches, and its   *)
(* matched substring is the whole character at the cursor: a lead byte     *)
(* and all its continuation bytes, 1 to 4 bytes; after every pair the      *)
(* cursor is on a character boundary of the candidate, and no slicing      *)
(* panics.                                                                 *)
(***************************************************************************)
C8_WildCardTakesWholeCharacter ==
    /\ ~panicked
    /\ holding =>
        LET k == Len(answer)
        IN  /\ \A i \in 1..k :
                 /\ is_char_boundary(string, CursorAfter(i))
                 /\ tokens[i].type = "WildCard" =>
                      LET piece == answer[i].text
                      IN  /\ Len(piece) \in 1..4
                          /\ ~IsContinuation(piece[1])
                          /\ \A j \in 2..Len(piece) : IsContinuation(piece[j])
                          /\ Len(piece) = WholeCharLen(RestAfter(i - 1))
            /\ (k < Len(tokens) /\ tokens[k + 1].type = "WildCard") =>
                 RestAfter(k) = <<>>

\* the WildCard of test::simple_test, matching the four bytes of U+1F4AA
C8_Witness ==
    /\ holding
    /\ \E i \in 1..Len(answer) :
         tokens[i].type = "WildCard" /\ answer[i].text = FlexedBiceps

(***************************************************************************)
(* C9.  A character of several code points is here a code point followed   *)
(* by combining acute accents.                                             *)
(***************************************************************************)
\* s starts with a character of several code points
StartsWithCluster(s) ==
    s # <<>> /\ starts_with(slice_from(s, WholeCharLen(s)), CombiningAcute)

\* the bytes of the user-perceived character s starts with
RECURSIVE ClusterLen(_)
ClusterLen(s) ==
    LET first == WholeCharLen(s)
        after == slice_from(s, first)
    IN  IF starts_with(after, CombiningAcute)
        THEN first + ClusterLen(after) ELSE first

(***************************************************************************)
(* C9 as stated: a WildCard that meets a character of several code points  *)
(* takes all of its code points.                                           *)
(***************************************************************************)
C9_Original ==
    holding =>
        \A i \in 1..Len(answer) :
            (tokens[i].type = "WildCard" /\ StartsWithCluster(RestAfter(i - 1))) =>
                Len(answer[i].text) = ClusterLen(RestAfter(i - 1))

(***************************************************************************)
(* C9 amended: a WildCard that meets a character of several code points    *)
(* takes its first code point only: the matched substring is that one code *)
(* point, and the next token is matched from the character's second code   *)
(* point (the combining mark) on.                                          *)
(***************************************************************************)
C9_WildCardTakesOneCodePoint ==
    holding =>
        \A i \in 1..Len(answer) :
            (tokens[i].type = "WildCard" /\ StartsWithCluster(RestAfter(i - 1))) =>
                /\ Len(answer[i].text) = WholeCharLen(RestAfter(i - 1))
                /\ starts_with(RestAfter(i), CombiningAcute)
                /\ i < Len(answer) =>
                     \/ starts_with(answer[i + 1].text, CombiningAcute)
                     \/ answer[i + 1].text = <<>>

\* `.` then the accent as raw text, on a letter with the accent
C9_Witness ==
    /\ holding
    /\ string = LetterA \o CombiningAcute
    /\ Len(answer) = 2
    /\ tokens[1].type = "WildCard"
    /\ answer[1].text = LetterA
    /\ answer[2].text = CombiningAcute

(***************************************************************************)
(* C10: a OneOfText reached with candidate text remaining matches the      *)
(* first of its alternatives, in order, that is a prefix of the remaining  *)
(* text, and consumes that alternative (an empty alternative is a prefix   *)
(* and consumes nothing); it fails only when no alternative is a prefix.   *)
(***************************************************************************)
C10_FirstAlternative ==
    holding =>
        LET k == Len(answer)
        IN  /\ \A i \in 1..k :
                 tokens[i].type = "OneOfText" =>
                     \E j \in 1..Len(tokens[i].options) :
                         /\ starts_with(RestAfter(i - 1), tokens[i].options[j])
                         /\ \A h \in 1..(j - 1) :
                              ~starts_with(RestAfter(i - 1), tokens[i].options[h])
                         /\ answer[i].text = tokens[i].options[j]
            /\ (k < Len(tokens) /\ tokens[k + 1].type = "OneOfText"
                  /\ RestAfter(k) # <<>>) =>
                 \A j \in 1..Len(tokens[k + 1].options) :
                     ~starts_with(RestAfter(k), tokens[k + 1].options[j])

\* the first alternative taken though a later, longer one is a prefix too
C10_Witness ==
    /\ holding
    /\ \E i \in 1..Len(answer) :
         /\ tokens[i].type = "OneOfText"
         /\ \E j \in 2..Len(tokens[i].options) :
              /\ starts_with(RestAfter(i - 1), tokens[i].options[j])
              /\ Len(tokens[i].options[j]) > Len(answer[i].text)

====
